---- MODULE Spec2Model ----
(***************************************************************************)
(* A model of the cryptopals toolkit: the XOR cryptanalysis engine of      *)
(* src/src/xor/mod.rs and the base-16 / base-64 codec of src/src/io.rs.    *)
(*                                                                         *)
(* Bytes are the integers 0..255.  An iterator of bytes is a record        *)
(* [kind, s]: a finite slice, or the endless cycle of a sequence           *)
(* (iter::repeat(b) is the endless cycle of <<b>>).  An f64 score is a     *)
(* record [nan, v] whose v counts units of 10^-4; a normalized distance    *)
(* is the exact ratio [nan, num, den] of the two integers the code         *)
(* divides.  Text is the sequence of the bytes of the &str.                *)
(*                                                                         *)
(* The square root of a score term is taken to four decimal places where   *)
(* the code keeps the 53 bits of an f64; NaN is kept apart and behaves as  *)
(* in IEEE 754: it survives every addition and every comparison with it    *)
(* is false.  The quotients d / c are compared exactly, which is how the   *)
(* correctly rounded f64 quotients of such small integers compare.         *)
(***************************************************************************)
EXTENDS Integers, Sequences, FiniteSets, TLC

VARIABLES
    pc,        \* position of the running call
    bytes,     \* the byte sequence handed to the engine
    fn,        \* the public function that was called
    arg,       \* the iterator handed to find_single_byte_xor_key
    b,         \* loop variable of find_single_byte_xor_key
    best_b,
    best_e,
    l,         \* loop variable of find_repeating_key_xor_key_length
    max_len,
    best_l,
    best_d,
    hd,        \* the last (distance, count * 8) of hamming_distance
    key,       \* the Vec<u8> of find_repeating_key_xor_key
    i,         \* index of the key byte being written
    bytes2,    \* second operand of xor / hamming_distance
    keyit,     \* the key iterator of an encryption
    out,       \* collected output of xor
    e,         \* result of englishness
    data,      \* the bytes handed to ToBase16 / ToBase64
    text,      \* the text handed to from_base16 / from_base64
    origin,    \* where text came from
    res        \* the Result of the decoder

engineVars == <<fn, arg, b, best_b, best_e, l, max_len, best_l, best_d, key, i>>
primVars == <<bytes2, keyit, out, e>>
codecVars == <<data, text, origin, res>>
vars == <<pc, bytes, hd, engineVars, primVars, codecVars>>

----------------------------------------------------------------------------
(* Bounds of the model *)

MaxLen == 2          \* longest sampled ciphertext of the engine
LongLen == 43        \* length of the long ciphertexts (beyond the searched lengths)
MaxPrimLen == 2      \* longest operand of xor / hamming_distance / englishness
MaxData == 4         \* longest byte sequence that is encoded
MaxText == 4         \* longest free text that is decoded
MaxGroups == 2       \* most 4-symbol groups of a padded text that is decoded

Min(x, y) == IF x < y THEN x ELSE y
Max(x, y) == IF x > y THEN x ELSE y

SeqsUpTo(S, n) == UNION {[1..k -> S] : k \in 0..n}

Byte == 0..255

----------------------------------------------------------------------------
(* u8 arithmetic *)

Bit(x, k) == (x \div (2 ^ k)) % 2

\* b1 + b2 on u8, wrapping
AddByte(b1, b2) == (b1 + b2) % 256

\* b1 ^ b2 on u8
XorByte(b1, b2) ==
    ((b1 + b2) % 2)
    + 2 * (((b1 \div 2) + (b2 \div 2)) % 2)
    + 4 * (((b1 \div 4) + (b2 \div 4)) % 2)
    + 8 * (((b1 \div 8) + (b2 \div 8)) % 2)
    + 16 * (((b1 \div 16) + (b2 \div 16)) % 2)
    + 32 * (((b1 \div 32) + (b2 \div 32)) % 2)
    + 64 * (((b1 \div 64) + (b2 \div 64)) % 2)
    + 128 * (((b1 \div 128) + (b2 \div 128)) % 2)

\* u8::count_ones
CountOnes(x) == Bit(x, 0) + Bit(x, 1) + Bit(x, 2) + Bit(x, 3)
                + Bit(x, 4) + Bit(x, 5) + Bit(x, 6) + Bit(x, 7)

\* u8::to_ascii_uppercase
ToAsciiUppercase(x) == IF x >= 97 /\ x <= 122 THEN x - 32 ELSE x

----------------------------------------------------------------------------
(* Iterators *)

Slice(s) == [kind |-> "slice", s |-> s]
Cycle(s) == [kind |-> "cycle", s |-> s]      \* Iterator::cycle: empty if s is
Repeat(x) == [kind |-> "cycle", s |-> <<x>>] \* iter::repeat

IterFinite(it) == it.kind = "slice" \/ it.s = <<>>
IterAt(it, j) ==
    IF it.kind = "slice" THEN it.s[j] ELSE it.s[((j - 1) % Len(it.s)) + 1]

\* number of pairs Iterator::zip yields (one operand at least is finite)
ZipLen(it1, it2) ==
    CASE IterFinite(it1) /\ IterFinite(it2) -> Min(Len(it1.s), Len(it2.s))
      [] IterFinite(it1) -> Len(it1.s)
      [] IterFinite(it2) -> Len(it2.s)

\* Iterator::skip on a slice
Skip(s, n) == SubSeq(s, n + 1, Len(s))

\* Iterator::step_by on a slice: the items at offsets 0, step, 2 step, ...
StepBy(s, step) ==
    [j \in 1..((Len(s) + step - 1) \div step) |-> s[(j - 1) * step + 1]] \o <<>>

----------------------------------------------------------------------------
(* f64 values *)

F(v) == [nan |-> FALSE, v |-> v]
NaN == [nan |-> TRUE, v |-> 0]
FAdd(x, y) == IF x.nan \/ y.nan THEN NaN ELSE F(x.v + y.v)
FGt(x, y) == ~x.nan /\ ~y.nan /\ x.v > y.v

RECURSIVE IsqrtIter(_, _)
IsqrtIter(n, x) ==
    LET y == (x + n \div x) \div 2
    IN  IF y >= x THEN x ELSE IsqrtIter(n, y)
Isqrt(n) == IF n = 0 THEN 0 ELSE IsqrtIter(n, n)

\* ((count as f64) / (total as f64) * f).sqrt(), f in units of 10^-7 and the
\* result in units of 10^-4; 0.0 / 0.0 is NaN and stays NaN
Term(count, total, f) ==
    IF total = 0 THEN NaN ELSE F(Isqrt((10 * count * f) \div total))

Ratio(n, d) == [nan |-> FALSE, num |-> n, den |-> d]
RNaN == [nan |-> TRUE, num |-> 0, den |-> 1]
\* (d as f64) / (c as f64) with d <= c
FDiv(d, c) == IF c = 0 THEN RNaN ELSE Ratio(d, c)
RLt(x, y) == ~x.nan /\ ~y.nan /\ x.num * y.den < y.num * x.den
REq(x, y) == ~x.nan /\ ~y.nan /\ x.num * y.den = y.num * x.den

----------------------------------------------------------------------------
(* src/src/xor/mod.rs *)

\* (the items are kept as a sequence: f \o <<>> is the function f, a sequence)
xor(xs, ys) ==
    [j \in 1..ZipLen(xs, ys) |-> XorByte(IterAt(xs, j), IterAt(ys, j))] \o <<>>

\* the frequencies in units of 10^-7
DICTIONARY == <<
    <<65, 651738>>, <<66, 124248>>, <<67, 217339>>, <<68, 349835>>,
    <<69, 1041442>>, <<70, 197881>>, <<71, 158610>>, <<72, 492888>>,
    <<73, 558094>>, <<74, 9033>>, <<75, 50529>>, <<76, 331490>>,
    <<77, 202124>>, <<78, 564513>>, <<79, 596302>>, <<80, 137645>>,
    <<81, 8606>>, <<82, 497563>>, <<83, 515760>>, <<84, 729357>>,
    <<85, 225134>>, <<86, 82903>>, <<87, 171272>>, <<88, 13692>>,
    <<89, 145984>>, <<90, 7836>>, <<32, 1918182>> >>

\* counts[c] after the first loop of englishness
CountOf(s, c) == Cardinality({j \in DOMAIN s : ToAsciiUppercase(s[j]) = c})

RECURSIVE EnglishnessSum(_, _)
EnglishnessSum(s, k) ==
    IF k = 0 THEN F(0)
    ELSE FAdd(EnglishnessSum(s, k - 1),
              Term(CountOf(s, DICTIONARY[k][1]), Len(s), DICTIONARY[k][2]))

englishness(s) == EnglishnessSum(s, Len(DICTIONARY))

RECURSIVE SumOnes(_, _, _)
SumOnes(xs, ys, n) ==
    IF n = 0 THEN 0
    ELSE SumOnes(xs, ys, n - 1)
         + CountOnes(XorByte(IterAt(xs, n), IterAt(ys, n)))

\* the count of compared bytes returned, not of compared bits
hamming_distance_bytes(xs, ys) ==
    LET count == ZipLen(xs, ys)
    IN  <<SumOnes(xs, ys, count), count>>

hamming_distance(xs, ys) ==
    LET count == ZipLen(xs, ys)
    IN  <<SumOnes(xs, ys, count), count * 8>>

MAX_SEARCHED_KEY_LENGTH == 40

\* the bound without the cap on the searched lengths
SearchBoundNoCap(n) == n

\* bytes.len().min(MAX_SEARCHED_KEY_LENGTH + 1)
SearchBound(n) == Min(n, MAX_SEARCHED_KEY_LENGTH + 1)

\* e >= best_e
BetterOrEqual(x, best) == ~x.nan /\ ~best.nan /\ x.v >= best.v

\* e > best_e
Better(x, best) == FGt(x, best)

\* d <= best_d
CloserOrEqual(d, best) == ~d.nan /\ ~best.nan /\ d.num * best.den <= best.num * d.den

\* d < best_d
Closer(d, best) == RLt(d, best)

\* bytes.clone().skip(i), the stride forgotten
ColumnNoStride(s, idx, step) == Skip(s, idx)

\* bytes.clone().skip(i).step_by(l)
Column(s, idx, step) == StepBy(Skip(s, idx), step)

----------------------------------------------------------------------------
(* Inputs of the engine *)

EngineBytes == {0, 55, 255}

\* 1, 2, .., p, 1, 2, .. : n bytes of period p
Ramp(p, n) == [j \in 1..n |-> ((j - 1) % p) + 1]

\* the message of tests::can_break_single_byte_xor
CookingMC == <<27, 55, 55, 51, 49, 54, 63, 120, 21, 27, 127, 43, 120, 52, 49,
               51, 61, 120, 57, 120, 40, 55, 45, 54, 60, 120, 55, 62, 120, 58,
               57, 59, 55, 54>>

\* 1, 0, .., 0, 1, 0, .. : n bytes, a 1 at every p-th place
Pulse(p, n) == [j \in 1..n |-> IF (j - 1) % p = 0 THEN 1 ELSE 0]

\* ciphertexts that repeat after 2, after 40 and after 41 bytes
LongCiphertexts ==
    {Ramp(2, LongLen), Ramp(MAX_SEARCHED_KEY_LENGTH, LongLen),
     Pulse(MAX_SEARCHED_KEY_LENGTH + 1, LongLen)}

Ciphertexts == SeqsUpTo(EngineBytes, MaxLen) \cup LongCiphertexts \cup {CookingMC}

----------------------------------------------------------------------------
(* Idle values of the variables a specification does not use *)

EngineIdle ==
    /\ fn = "none" /\ arg = <<>> /\ b = 0 /\ best_b = 0 /\ best_e = F(0)
    /\ l = 0 /\ max_len = 0 /\ best_l = 0 /\ best_d = Ratio(1, 1)
    /\ key = <<>> /\ i = 0

PrimIdle == bytes2 = <<>> /\ keyit = Slice(<<>>) /\ out = <<>> /\ e = F(0)

CodecIdle == data = <<>> /\ text = <<>> /\ origin = "none" /\ res = [tag |-> "None", bytes |-> <<>>]

----------------------------------------------------------------------------
(* The engine: find_single_byte_xor_key, find_repeating_key_xor_key_length *)
(* and find_repeating_key_xor_key, one action per loop iteration           *)

\* let mut best_b = 0; let mut best_e = 0.0; for b in 0x00..=0xff
EnterSingle(s) ==
    /\ arg' = s /\ b' = 0 /\ best_b' = 0 /\ best_e' = F(0)
    /\ pc' = "single_loop"

\* let mut best_l = 1; let mut best_d = 1.0; let max_len = ..; for l in 1..max_len
EnterKeyLength ==
    /\ best_l' = 1 /\ best_d' = Ratio(1, 1)
    /\ max_len' = SearchBound(Len(bytes)) /\ l' = 1
    /\ pc' = "keylen_loop"

CallSingle ==
    /\ pc = "idle"
    /\ fn' = "find_single_byte_xor_key"
    /\ EnterSingle(bytes)
    /\ UNCHANGED <<bytes, hd, l, max_len, best_l, best_d, key, i, primVars, codecVars>>

SingleStep ==
    /\ pc = "single_loop" /\ b <= 255
    /\ LET decoded == xor(Slice(arg), Repeat(b))
           en == englishness(decoded)
       IN  IF Better(en, best_e)
           THEN best_b' = b /\ best_e' = en
           ELSE UNCHANGED <<best_b, best_e>>
    /\ b' = b + 1
    /\ UNCHANGED <<pc, bytes, hd, fn, arg, l, max_len, best_l, best_d, key, i,
                   primVars, codecVars>>

SingleReturn ==
    /\ pc = "single_loop" /\ b > 255
    /\ fn = "find_single_byte_xor_key"
    /\ pc' = "done"
    /\ UNCHANGED <<bytes, hd, engineVars, primVars, codecVars>>

CallKeyLength ==
    /\ pc = "idle"
    /\ fn' = "find_repeating_key_xor_key_length"
    /\ EnterKeyLength
    /\ UNCHANGED <<bytes, hd, arg, b, best_b, best_e, key, i, primVars, codecVars>>

KeyLengthStep ==
    /\ pc = "keylen_loop" /\ l < max_len
    /\ LET r == hamming_distance(Slice(Skip(bytes, l)), Slice(bytes))
           d == FDiv(r[1], r[2])
       IN  /\ hd' = r
           /\ IF Closer(d, best_d)
              THEN best_l' = l /\ best_d' = d
              ELSE UNCHANGED <<best_l, best_d>>
    /\ l' = l + 1
    /\ UNCHANGED <<pc, bytes, fn, arg, b, best_b, best_e, max_len, key, i,
                   primVars, codecVars>>

KeyLengthReturn ==
    /\ pc = "keylen_loop" /\ l >= max_len
    /\ fn = "find_repeating_key_xor_key_length"
    /\ pc' = "done"
    /\ UNCHANGED <<bytes, hd, engineVars, primVars, codecVars>>

CallRepeatingKey ==
    /\ pc = "idle"
    /\ fn' = "find_repeating_key_xor_key"
    /\ EnterKeyLength
    /\ UNCHANGED <<bytes, hd, arg, b, best_b, best_e, key, i, primVars, codecVars>>

\* let (l, _) = find_repeating_key_xor_key_length(..); let mut key = vec![0; l];
KeyAlloc ==
    /\ pc = "keylen_loop" /\ l >= max_len
    /\ fn = "find_repeating_key_xor_key"
    /\ key' = [j \in 1..best_l |-> 0]
    /\ i' = 0
    /\ pc' = "columns"
    /\ UNCHANGED <<bytes, hd, fn, arg, b, best_b, best_e, l, max_len, best_l, best_d,
                   primVars, codecVars>>

\* for (i, b) in key.iter_mut().enumerate(): the call on column i
ColumnStart ==
    /\ pc = "columns" /\ i < Len(key)
    /\ EnterSingle(Column(bytes, i, best_l))
    /\ UNCHANGED <<bytes, hd, fn, l, max_len, best_l, best_d, key, i, primVars, codecVars>>

\* let (k, _) = find_single_byte_xor_key(..); *b = k;
ColumnDone ==
    /\ pc = "single_loop" /\ b > 255
    /\ fn = "find_repeating_key_xor_key"
    /\ key' = [key EXCEPT ![i + 1] = best_b]
    /\ i' = i + 1
    /\ pc' = "columns"
    /\ UNCHANGED <<bytes, hd, fn, arg, b, best_b, best_e, l, max_len, best_l, best_d,
                   primVars, codecVars>>

RepeatingKeyReturn ==
    /\ pc = "columns" /\ i >= Len(key)
    /\ pc' = "done"
    /\ UNCHANGED <<bytes, hd, engineVars, primVars, codecVars>>

InitBreak ==
    /\ pc = "idle"
    /\ bytes \in Ciphertexts
    /\ hd = <<0, 0>>
    /\ EngineIdle /\ PrimIdle /\ CodecIdle

NextBreak ==
    \/ CallSingle \/ SingleStep \/ SingleReturn
    \/ CallKeyLength \/ KeyLengthStep \/ KeyLengthReturn
    \/ CallRepeatingKey \/ KeyAlloc \/ ColumnStart \/ ColumnDone
    \/ RepeatingKeyReturn

SpecBreak == InitBreak /\ [][NextBreak]_vars

----------------------------------------------------------------------------
(* Properties of the engine *)

\* the pairs <<key, score>> of every candidate key on the ciphertext s
KeyScores(s) == {<<k, englishness(xor(Slice(s), Repeat(k)))>> : k \in 0..255}

\* the pair of the lowest key among those no other key scores strictly above
LowestBest(T) ==
    CHOOSE p \in T :
        /\ \A q \in T : ~FGt(q[2], p[2])
        /\ \A q \in T : q[1] < p[1] => FGt(p[2], q[2])

\* what find_single_byte_xor_key is to return on the ciphertext s
SingleKeyOf(s) ==
    LET T == KeyScores(s)
    IN  IF \E q \in T : FGt(q[2], F(0)) THEN LowestBest(T) ELSE <<0, F(0)>>

SingleLoopEnd == pc = "single_loop" /\ b > 255

\* "Cooking MC's like a pound of bacon"
CookingPlain == <<67, 111, 111, 107, 105, 110, 103, 32, 77, 67, 39, 115, 32, 108,
                  105, 107, 101, 32, 97, 32, 112, 111, 117, 110, 100, 32, 111,
                  102, 32, 98, 97, 99, 111, 110>>

\* C1: when find_single_byte_xor_key has scanned the keys 0x00..0xFF (upwards,
\* the best key so far always among those scanned), its result is the lowest
\* key among those of greatest englishness, with that score, and exactly
\* (0x00, 0.0) when no key scores strictly above 0.0; on the message of
\* tests::can_break_single_byte_xor the key decodes the expected text.
C1_LowestBestKey ==
    /\ pc = "single_loop" => b \in 0..256 /\ best_b < Max(b, 1)
    /\ SingleLoopEnd =>
          <<best_b, best_e>> = SingleKeyOf(arg)
    /\ (SingleLoopEnd /\ arg = <<>>) => (best_b = 0 /\ best_e = F(0))
    /\ (SingleLoopEnd /\ arg = CookingMC) =>
          xor(Slice(arg), Repeat(best_b)) = CookingPlain

\* C1 witness: the scan has ended on a ciphertext for which a higher key ties
\* with the returned one at a score above 0.0
C1_Witness ==
    /\ SingleLoopEnd /\ fn = "find_single_byte_xor_key"
    /\ FGt(best_e, F(0))
    /\ \E q \in KeyScores(arg) : q[1] > best_b /\ q[2] = best_e

\* the bits in which the ciphertext s and s shifted by n bytes differ
DifferingBits(s, n) ==
    Cardinality({p \in (1..(Len(s) - n)) \X (0..7) :
                    Bit(s[p[1] + n], p[2]) # Bit(s[p[1]], p[2])})

\* the pairs <<L, bits differing, bits compared>> of the candidate lengths of s
LengthScores(s) ==
    {<<n, DifferingBits(s, n), 8 * (Len(s) - n)>> : n \in 1..Min(Len(s) - 1, 40)}

\* what find_repeating_key_xor_key_length is to return on the ciphertext s:
\* the smallest length of least normalized distance, if that is below 1.0
KeyLengthOf(s) ==
    LET T == LengthScores(s)
        below == {p \in T : p[2] < p[3]}
    IN  IF below = {} THEN <<1, Ratio(1, 1)>>
        ELSE LET p == CHOOSE p \in below :
                          /\ \A q \in T : p[2] * q[3] <= q[2] * p[3]
                          /\ \A q \in T : q[1] < p[1] => p[2] * q[3] < q[2] * p[3]
             IN  <<p[1], Ratio(p[2], p[3])>>

KeyLengthLoopEnd == pc = "keylen_loop" /\ l >= max_len

\* C2: find_repeating_key_xor_key_length tries the lengths 1..min(n-1, 40)
\* upwards, each time dividing by 8*(n-L) > 0, and ends with the smallest length
\* of least normalized distance and that distance, or with (1, 1.0) when no
\* distance is below 1.0, in particular when n is 0 or 1.
C2_KeyLength ==
    /\ pc = "keylen_loop" =>
          /\ l \in 1..Max(Min(Len(bytes) - 1, 40) + 1, 1)
          /\ l > 1 => hd[2] = 8 * (Len(bytes) - (l - 1)) /\ hd[2] > 0
                      /\ hd[1] <= hd[2]
    /\ KeyLengthLoopEnd =>
          /\ l = Max(Min(Len(bytes) - 1, 40) + 1, 1)
          /\ best_l = KeyLengthOf(bytes)[1]
          /\ REq(best_d, KeyLengthOf(bytes)[2])
          /\ Len(bytes) <= 1 => best_l = 1 /\ best_d = Ratio(1, 1)

\* C2 witness: the search has ended on a ciphertext longer than 41 bytes on
\* which several lengths tie at the least distance
C2_Witness ==
    /\ KeyLengthLoopEnd /\ fn = "find_repeating_key_xor_key_length"
    /\ Len(bytes) - 1 > 40
    /\ \E p \in LengthScores(bytes) : p[1] > best_l /\ REq(Ratio(p[2], p[3]), best_d)

\* column idx of the ciphertext s cut into step columns: the bytes at the
\* positions idx, idx + step, idx + 2 step, ...
ColumnOf(s, idx, step) ==
    LET pos == {p \in 0..(Len(s) - 1) : p % step = idx}
    IN  [j \in 1..Cardinality(pos) |-> s[idx + (j - 1) * step + 1]] \o <<>>

RepeatingKeyDone == pc = "done" /\ fn = "find_repeating_key_xor_key"

\* C4: the key find_repeating_key_xor_key returns has the length that
\* find_repeating_key_xor_key_length is to return, its byte i is the key
\* find_single_byte_xor_key is to return for column i, and the ciphertext is
\* the one that was handed in.
C4_RepeatingKey ==
    RepeatingKeyDone =>
        /\ Len(key) = KeyLengthOf(bytes)[1]
        /\ \A idx \in 0..(Len(key) - 1) :
              key[idx + 1] = SingleKeyOf(ColumnOf(bytes, idx, Len(key)))[1]
        /\ bytes \in Ciphertexts

\* C4 witness: a key of two or more different bytes was returned for columns
\* of unequal length
C4_Witness ==
    /\ RepeatingKeyDone
    /\ Len(key) >= 2 /\ key[1] # key[2]
    /\ Len(bytes) % Len(key) # 0

\* C10: the key of find_repeating_key_xor_key has a length L in 1..40 and at
\* most max(1, n-1); every column handed to find_single_byte_xor_key is
\* non-empty unless the ciphertext is empty, and the key for the empty
\* ciphertext is <<0x00>>.
C10_KeyLengthRange ==
    (fn = "find_repeating_key_xor_key" /\ pc \in {"columns", "single_loop", "done"}) =>
        /\ Len(key) >= 1 /\ Len(key) <= 40
        /\ Len(key) <= Max(1, Len(bytes) - 1)
        /\ (pc = "single_loop" /\ Len(bytes) >= 1) => arg # <<>>
        /\ (pc = "single_loop" /\ arg = <<>>) => bytes = <<>>
        /\ (pc = "done" /\ bytes = <<>>) => key = <<0>>

\* C10 witness: the last column of a key of 40 bytes is being searched
C10_Witness ==
    /\ fn = "find_repeating_key_xor_key" /\ pc = "single_loop"
    /\ Len(key) = 40 /\ i = 39 /\ arg # <<>>

----------------------------------------------------------------------------
(* The primitives xor, hamming_distance and englishness, called on their   *)
(* own                                                                     *)

PrimBytes == {32, 69, 101, 255}

PrimSeqs == SeqsUpTo(PrimBytes, MaxPrimLen)

\* the operands of tests::hamming_distance_works
ThisIsATest == <<
    116, 104, 105, 115, 32, 105, 115, 32, 97, 32, 116, 101, 115, 116 >>
WokkaWokka == <<
    119, 111, 107, 107, 97, 32, 119, 111, 107, 107, 97, 33, 33, 33 >>

\* the message, the key and the expected bytes of tests::repeating_key_xor_works
BurningEm == <<
    66, 117, 114, 110, 105, 110, 103, 32, 39, 101, 109, 44, 32, 105,
    102, 32, 121, 111, 117, 32, 97, 105, 110, 39, 116, 32, 113, 117,
    105, 99, 107, 32, 97, 110, 100, 32, 110, 105, 109, 98, 108, 101,
    10, 73, 32, 103, 111, 32, 99, 114, 97, 122, 121, 32, 119, 104,
    101, 110, 32, 73, 32, 104, 101, 97, 114, 32, 97, 32, 99, 121, 109,
    98, 97, 108 >>
ICE == <<73, 67, 69>>
BurningEmEncrypted == <<
    11, 54, 55, 39, 42, 43, 46, 99, 98, 44, 46, 105, 105, 42, 35, 105,
    58, 42, 60, 99, 36, 32, 45, 98, 61, 99, 52, 60, 42, 38, 34, 99,
    36, 39, 39, 101, 39, 42, 40, 43, 47, 32, 67, 10, 101, 46, 44, 101,
    42, 49, 36, 51, 58, 101, 62, 43, 32, 39, 99, 12, 105, 43, 32, 40,
    49, 101, 40, 99, 38, 48, 46, 39, 40, 47 >>

TestPairs == {<<ThisIsATest, WokkaWokka>>, <<BurningEm, ICE>>}

KeyIterators == {Repeat(k) : k \in PrimBytes} \cup {Cycle(bytes2)}

CallXor ==
    /\ pc = "idle"
    /\ out' = xor(Slice(bytes), Slice(bytes2))
    /\ pc' = "xor"
    /\ UNCHANGED <<bytes, hd, engineVars, bytes2, keyit, e, codecVars>>

\* xor(message, key) with an endless key, as tests::repeating_key_xor_works
Encrypt ==
    /\ pc = "idle"
    /\ \E kit \in KeyIterators :
          /\ keyit' = kit
          /\ out' = xor(Slice(bytes), kit)
    /\ pc' = "encrypted"
    /\ UNCHANGED <<bytes, hd, engineVars, bytes2, e, codecVars>>

\* xor(ciphertext, key) with the same key, as tests::can_break_single_byte_xor
Decrypt ==
    /\ pc = "encrypted"
    /\ out' = xor(Slice(out), keyit)
    /\ pc' = "decrypted"
    /\ UNCHANGED <<bytes, hd, engineVars, bytes2, keyit, e, codecVars>>

CallHammingDistance ==
    /\ pc = "idle"
    /\ hd' = hamming_distance(Slice(bytes), Slice(bytes2))
    /\ pc' = "hamming"
    /\ UNCHANGED <<bytes, engineVars, primVars, codecVars>>

CallEnglishness ==
    /\ pc = "idle"
    /\ e' = englishness(bytes)
    /\ pc' = "englishness"
    /\ UNCHANGED <<bytes, hd, engineVars, bytes2, keyit, out, codecVars>>

InitPrim ==
    /\ pc = "idle"
    /\ \E pair \in (PrimSeqs \X PrimSeqs) \cup TestPairs :
          bytes = pair[1] /\ bytes2 = pair[2]
    /\ hd = <<0, 0>>
    /\ keyit = Slice(<<>>) /\ out = <<>> /\ e = F(0)
    /\ EngineIdle /\ CodecIdle

NextPrim == CallXor \/ Encrypt \/ Decrypt \/ CallHammingDistance \/ CallEnglishness

SpecPrim == InitPrim /\ [][NextPrim]_vars

----------------------------------------------------------------------------
(* Properties of the primitives *)

\* the aligned positions and bits in which the sequences s and t differ
DifferingAt(s, t) ==
    {p \in (1..Min(Len(s), Len(t))) \X (0..7) : Bit(s[p[1]], p[2]) # Bit(t[p[1]], p[2])}

\* C3: englishness of the empty byte sequence is exactly 0.
C3_EmptyScoresZero ==
    (pc = "englishness" /\ bytes = <<>>) => e = F(0)

\* C5: hamming_distance returns the number of bits in which the aligned bytes
\* differ and 8 times the length of the shorter operand, so that
\* 0 <= d <= c; two empty operands give (0, 0), and the operands of
\* tests::hamming_distance_works give 37 bits of 112.
C5_HammingDistance ==
    pc = "hamming" =>
        /\ hd[2] = 8 * Min(Len(bytes), Len(bytes2))
        /\ hd[1] = Cardinality(DifferingAt(bytes, bytes2))
        /\ 0 <= hd[1] /\ hd[1] <= hd[2]
        /\ (bytes = <<>> /\ bytes2 = <<>>) => hd = <<0, 0>>
        /\ (bytes = ThisIsATest /\ bytes2 = WokkaWokka) => hd = <<37, 112>>

\* C5 witness: operands of unequal length that differ in some bit
C5_Witness ==
    /\ pc = "hamming"
    /\ Len(bytes) > Len(bytes2) /\ bytes2 # <<>>
    /\ hd[1] > 0 /\ hd[1] < hd[2]

\* C6: xor yields min(|A|, |B|) bytes, byte i having exactly the bits in
\* which A[i] and B[i] differ; xor with a repeated byte or a non-empty cycled
\* key, applied twice, gives the message back (and "ICE" encrypts the message
\* of tests::repeating_key_xor_works to the expected bytes).
C6_XorSelfInverse ==
    /\ pc = "xor" =>
          /\ Len(out) = Min(Len(bytes), Len(bytes2))
          /\ \A j \in 1..Len(out) :
                /\ out[j] \in Byte
                /\ \A k \in 0..7 :
                      Bit(out[j], k) = 1 <=> Bit(bytes[j], k) # Bit(bytes2[j], k)
    /\ (pc = "encrypted" /\ keyit.s # <<>>) => Len(out) = Len(bytes)
    /\ (pc = "encrypted" /\ bytes = BurningEm /\ keyit = Cycle(ICE)) =>
          out = BurningEmEncrypted
    /\ (pc = "decrypted" /\ keyit.s # <<>>) => out = bytes

\* C6 witness: a message longer than its cycled key was encrypted to other
\* bytes and decrypted
C6_Witness ==
    /\ pc = "decrypted"
    /\ Len(keyit.s) > 1 /\ Len(bytes) > Len(keyit.s)
    /\ out = bytes /\ out # xor(Slice(bytes), keyit)

----------------------------------------------------------------------------
(* src/src/io.rs *)

\* x << n and x >> n on u8
Shl(x, n) == (x * (2 ^ n)) % 256
Shr(x, n) == x \div (2 ^ n)

\* b1 | b2 and b1 & b2 on u8
OrByte(b1, b2) ==
    LET o(m) == IF ((b1 \div m) % 2) + ((b2 \div m) % 2) > 0 THEN m ELSE 0
    IN  o(1) + o(2) + o(4) + o(8) + o(16) + o(32) + o(64) + o(128)
AndByte(b1, b2) ==
    LET a(m) == IF ((b1 \div m) % 2) + ((b2 \div m) % 2) = 2 THEN m ELSE 0
    IN  a(1) + a(2) + a(4) + a(8) + a(16) + a(32) + a(64) + a(128)

\* slice::chunks
Chunks(s, n) ==
    [j \in 1..((Len(s) + n - 1) \div n) |-> SubSeq(s, (j - 1) * n + 1, Min(j * n, Len(s)))]

Ok(s) == [tag |-> "Ok", bytes |-> s]
Err == [tag |-> "Err", bytes |-> <<>>]
Panic == [tag |-> "Panic", bytes |-> <<>>]

\* the digit of a base-16 character with b'a'..=b'f' => c - b'a'
Hex16NoTen(c) ==
    CASE c >= 48 /\ c <= 57 -> c - 48
      [] c >= 97 /\ c <= 102 -> c - 97
      [] c >= 65 /\ c <= 70 -> 10 + c - 65
      [] OTHER -> 255

\* the digit of a base-16 character, 0xff if it is none
Hex16(c) ==
    CASE c >= 48 /\ c <= 57 -> c - 48
      [] c >= 97 /\ c <= 102 -> 10 + c - 97
      [] c >= 65 /\ c <= 70 -> 10 + c - 65
      [] OTHER -> 255

RECURSIVE Decode16(_, _, _)
Decode16(cs, k, acc) ==
    IF k > Len(cs) THEN Ok(acc)
    ELSE IF Len(cs[k]) # 2 THEN Panic      \* cs.try_into().unwrap()
    ELSE LET i1 == Hex16(cs[k][1])
             i2 == Hex16(cs[k][2])
         IN  IF i1 <= 15 /\ i2 <= 15
             THEN Decode16(cs, k + 1, Append(acc, OrByte(Shl(i1, 4), i2)))
             ELSE Err

from_base16(input) ==
    IF Len(input) % 2 # 0 THEN Err
    ELSE Decode16(Chunks(input, 2), 1, <<>>)

\* the value of a base-64 character with b'a'..=b'z' => c - b'a'
Sym64NoOffset(c) ==
    CASE c >= 65 /\ c <= 90 -> c - 65
      [] c >= 97 /\ c <= 122 -> c - 97
      [] c >= 48 /\ c <= 57 -> 52 + c - 48
      [] c = 43 -> 62
      [] c = 47 -> 63
      [] c = 61 -> 254
      [] OTHER -> 255

\* the value of a base-64 character, 0xfe for '=' and 0xff if it is none
Sym64(c) ==
    CASE c >= 65 /\ c <= 90 -> c - 65
      [] c >= 97 /\ c <= 122 -> 26 + c - 97
      [] c >= 48 /\ c <= 57 -> 52 + c - 48
      [] c = 43 -> 62
      [] c = 47 -> 63
      [] c = 61 -> 254
      [] OTHER -> 255

\* the bytes of one group of four values, <<>> standing for no match
Group64(i1, i2, i3, i4) ==
    CASE i1 <= 63 /\ i2 <= 63 /\ i3 <= 63 /\ i4 <= 63 ->
            Ok(<<OrByte(Shl(i1, 2), Shr(i2, 4)),
                 OrByte(Shl(i2, 4), Shr(i3, 2)),
                 OrByte(Shl(i3, 6), i4)>>)
      [] i1 <= 63 /\ i2 <= 63 /\ i3 <= 63 /\ i4 = 254 ->
            Ok(<<OrByte(Shl(i1, 2), Shr(i2, 4)),
                 OrByte(Shl(i2, 4), Shr(i3, 2))>>)
      [] i1 <= 63 /\ i2 <= 63 /\ i3 = 254 /\ i4 = 254 ->
            Ok(<<OrByte(Shl(i1, 2), Shr(i2, 4))>>)
      [] OTHER -> Err

RECURSIVE Decode64(_, _, _)
Decode64(cs, k, acc) ==
    IF k > Len(cs) THEN Ok(acc)
    ELSE IF Len(cs[k]) # 4 THEN Panic      \* cs.try_into().unwrap()
    ELSE LET g == Group64(Sym64(cs[k][1]), Sym64(cs[k][2]),
                          Sym64(cs[k][3]), Sym64(cs[k][4]))
         IN  IF g.tag = "Ok"
             THEN Decode64(cs, k + 1, acc \o g.bytes)
             ELSE Err

from_base64(input) ==
    IF Len(input) % 4 # 0 THEN Err
    ELSE Decode64(Chunks(input, 4), 1, <<>>)

\* the character of a base-16 digit
Char16(x) == IF x <= 9 THEN 48 + x ELSE 97 + x - 10

ToBase16(s) ==
    [j \in 1..(2 * Len(s)) |->
        LET x == s[(j + 1) \div 2]
        IN  Char16(IF j % 2 = 1 THEN Shr(AndByte(x, 240), 4) ELSE AndByte(x, 15))]

\* the four values of a chunk of one, two or three bytes, 0xff for a pad
Sextets(bs) ==
    CASE Len(bs) = 1 ->
            <<Shr(AndByte(bs[1], 252), 2), Shl(AndByte(bs[1], 3), 4), 255, 255>>
      [] Len(bs) = 2 ->
            <<Shr(AndByte(bs[1], 252), 2),
              OrByte(Shl(AndByte(bs[1], 3), 4), Shr(AndByte(bs[2], 240), 4)),
              Shl(AndByte(bs[2], 15), 2),
              255>>
      [] Len(bs) = 3 ->
            <<Shr(AndByte(bs[1], 252), 2),
              OrByte(Shl(AndByte(bs[1], 3), 4), Shr(AndByte(bs[2], 240), 4)),
              OrByte(Shl(AndByte(bs[2], 15), 2), Shr(AndByte(bs[3], 192), 6)),
              AndByte(bs[3], 63)>>

\* the character of a base-64 value
Char64(x) ==
    CASE x <= 25 -> 65 + x
      [] x >= 26 /\ x <= 51 -> 97 + x - 26
      [] x >= 52 /\ x <= 61 -> 48 + x - 52
      [] x = 62 -> 43
      [] x = 63 -> 47
      [] x = 255 -> 61

ToBase64(s) ==
    LET cs == Chunks(s, 3)
    IN  [j \in 1..(4 * Len(cs)) |-> Char64(Sextets(cs[(j + 3) \div 4])[((j - 1) % 4) + 1])]

----------------------------------------------------------------------------
(* The codec: a byte sequence is written as text and the text decoded, or  *)
(* a text from elsewhere is decoded                                        *)

DataBytes == {0, 15, 90, 165, 255}

\* TEXT, BASE16 and BASE64 of the tests of io.rs
TEXT == <<
    73, 39, 109, 32, 107, 105, 108, 108, 105, 110, 103, 32, 121, 111,
    117, 114, 32, 98, 114, 97, 105, 110, 32, 108, 105, 107, 101, 32,
    97, 32, 112, 111, 105, 115, 111, 110, 111, 117, 115, 32, 109, 117,
    115, 104, 114, 111, 111, 109 >>
BASE16 == <<
    52, 57, 50, 55, 54, 100, 50, 48, 54, 98, 54, 57, 54, 99, 54, 99,
    54, 57, 54, 101, 54, 55, 50, 48, 55, 57, 54, 102, 55, 53, 55, 50,
    50, 48, 54, 50, 55, 50, 54, 49, 54, 57, 54, 101, 50, 48, 54, 99,
    54, 57, 54, 98, 54, 53, 50, 48, 54, 49, 50, 48, 55, 48, 54, 102,
    54, 57, 55, 51, 54, 102, 54, 101, 54, 102, 55, 53, 55, 51, 50, 48,
    54, 100, 55, 53, 55, 51, 54, 56, 55, 50, 54, 102, 54, 102, 54, 100 >>
BASE64 == <<
    83, 83, 100, 116, 73, 71, 116, 112, 98, 71, 120, 112, 98, 109, 99,
    103, 101, 87, 57, 49, 99, 105, 66, 105, 99, 109, 70, 112, 98, 105,
    66, 115, 97, 87, 116, 108, 73, 71, 69, 103, 99, 71, 57, 112, 99,
    50, 57, 117, 98, 51, 86, 122, 73, 71, 49, 49, 99, 50, 104, 121,
    98, 50, 57, 116 >>

DataSeqs == SeqsUpTo(DataBytes, MaxData) \cup {<<x>> : x \in Byte} \cup {TEXT}

\* '/', '0', '9', '=', 'A', 'F', 'G', 'a', 'f', 'g' and the non-ASCII byte 0xC3
TextChars == {47, 48, 57, 61, 65, 70, 71, 97, 102, 103, 195}

\* 'Q', '='
PadChars == {81, 61}

RECURSIVE GroupTexts(_)
GroupTexts(n) ==
    IF n = 0 THEN {<<>>}
    ELSE {t \o g : t \in GroupTexts(n - 1), g \in [1..4 -> PadChars]}

Texts == SeqsUpTo(TextChars, MaxText) \cup UNION {GroupTexts(n) : n \in 1..MaxGroups}

WriteBase16 ==
    /\ pc = "idle"
    /\ text' = ToBase16(data)
    /\ origin' = "ToBase16"
    /\ pc' = "text"
    /\ UNCHANGED <<bytes, hd, engineVars, primVars, data, res>>

WriteBase64 ==
    /\ pc = "idle"
    /\ text' = ToBase64(data)
    /\ origin' = "ToBase64"
    /\ pc' = "text"
    /\ UNCHANGED <<bytes, hd, engineVars, primVars, data, res>>

ReadText ==
    /\ pc = "idle" /\ data = <<>>
    /\ text' \in Texts
    /\ origin' = "input"
    /\ pc' = "text"
    /\ UNCHANGED <<bytes, hd, engineVars, primVars, data, res>>

CallFromBase16 ==
    /\ pc = "text"
    /\ res' = from_base16(text)
    /\ pc' = "from_base16"
    /\ UNCHANGED <<bytes, hd, engineVars, primVars, data, text, origin>>

CallFromBase64 ==
    /\ pc = "text"
    /\ res' = from_base64(text)
    /\ pc' = "from_base64"
    /\ UNCHANGED <<bytes, hd, engineVars, primVars, data, text, origin>>

InitCodec ==
    /\ pc = "idle"
    /\ data \in DataSeqs
    /\ text = <<>> /\ origin = "none" /\ res = [tag |-> "None", bytes |-> <<>>]
    /\ bytes = <<>> /\ hd = <<0, 0>>
    /\ EngineIdle /\ PrimIdle

NextCodec == WriteBase16 \/ WriteBase64 \/ ReadText \/ CallFromBase16 \/ CallFromBase64

SpecCodec == InitCodec /\ [][NextCodec]_vars

----------------------------------------------------------------------------
(* Properties of the codec *)

\* "0123456789abcdef"
LowerHexDigits == <<48, 49, 50, 51, 52, 53, 54, 55, 56, 57, 97, 98, 99, 100, 101, 102>>

\* the characters 0-9, a-f, A-F
HexChars == (48..57) \cup (97..102) \cup (65..70)

\* the characters A-Z, a-z, 0-9, '+', '/'
Base64Chars == (65..90) \cup (97..122) \cup (48..57) \cup {43, 47}

\* the trailing '=' of a text
RECURSIVE TrailingPads(_)
TrailingPads(t) ==
    IF t # <<>> /\ t[Len(t)] = 61 THEN 1 + TrailingPads(SubSeq(t, 1, Len(t) - 1)) ELSE 0

\* C7: from_base64 returns Err, and no bytes, for every text whose length is
\* no multiple of 4, or that holds a character that is neither of the base-64
\* alphabet nor '=', or that holds a '=' anywhere but as one of its last two
\* characters.
C7_MisplacedPadRejected ==
    (pc = "from_base64" /\
        (\/ Len(text) % 4 # 0
         \/ \E j \in 1..Len(text) : text[j] \notin Base64Chars \cup {61}
         \/ \E j \in 1..(Len(text) - 2) : text[j] = 61))
    => res = Err

\* C8: the text ToBase64 writes for n bytes has 4 * ceil(n / 3) characters, of
\* which the last 0, 2 or 1 are '=' as n is 0, 1 or 2 modulo 3, and from_base64
\* gives the bytes back (BASE64 for TEXT); a single group of alphabet characters
\* followed by 0, 1 or 2 '=' decodes to 3, 2 or 1 bytes.
C8_Base64RoundTrip ==
    /\ (pc = "from_base64" /\ origin = "ToBase64") =>
          /\ res = Ok(data)
          /\ Len(text) = 4 * ((Len(data) + 2) \div 3)
          /\ TrailingPads(text) = (3 - (Len(data) % 3)) % 3
          /\ \A j \in 1..(Len(text) - TrailingPads(text)) : text[j] \in Base64Chars
          /\ data = TEXT => text = BASE64
    /\ (pc = "from_base64" /\ Len(text) = 4 /\ TrailingPads(text) <= 2
        /\ \A j \in 1..(4 - TrailingPads(text)) : text[j] \in Base64Chars) =>
          /\ res.tag = "Ok"
          /\ Len(res.bytes) = 3 - TrailingPads(text)

\* C8 witness: more than three bytes, the last group holding one byte and two
\* pads and some character of the text a lowercase letter, came back
C8_Witness ==
    /\ pc = "from_base64" /\ origin = "ToBase64"
    /\ Len(data) > 3 /\ Len(data) % 3 = 1
    /\ \E j \in 1..Len(text) : text[j] >= 97
    /\ res.bytes = data

\* C9: the text ToBase16 writes is the two lowercase hex digits of every byte,
\* the high one first, and from_base16 gives the bytes back (BASE16 for TEXT);
\* from_base16 returns Err for every text of odd length and every text with a
\* character that is no hex digit, and never panics.
C9_Base16RoundTrip ==
    /\ (pc = "from_base16" /\ origin = "ToBase16") =>
          /\ res = Ok(data)
          /\ Len(text) = 2 * Len(data)
          /\ \A j \in 1..Len(data) :
                /\ text[2 * j - 1] = LowerHexDigits[(data[j] \div 16) + 1]
                /\ text[2 * j] = LowerHexDigits[(data[j] % 16) + 1]
          /\ data = TEXT => text = BASE16
    /\ pc = "from_base16" => res.tag \in {"Ok", "Err"}
    /\ (pc = "from_base16" /\ Len(text) % 2 = 1) => res = Err
    /\ (pc = "from_base16" /\ \E j \in 1..Len(text) : text[j] \notin HexChars) => res = Err
    /\ (pc = "from_base16" /\ res.tag = "Ok") => Len(res.bytes) * 2 = Len(text)

\* C9 witness: two or more bytes, one with a digit above 9, came back
C9_Witness ==
    /\ pc = "from_base16" /\ origin = "ToBase16"
    /\ Len(data) >= 2
    /\ \E j \in 1..Len(data) : data[j] \div 16 >= 10
    /\ res.bytes = data

====
